---- MODULE Spec2Model ----
(***************************************************************************)
(* Model of bot.py: the command handlers of the clan bot, the SQLite       *)
(* tables they read and write, and the two upstream fetches.               *)
(*                                                                         *)
(* Every command invocation is a task on one cooperative event loop; a     *)
(* task is suspended at each await, so the steps of a handler below are    *)
(* the stretches of code between two awaits.  Each handler opens its own   *)
(* connection; SQLite lets one connection write at a time (variable        *)
(* writer) and the other connections read the committed tables.            *)
(*                                                                         *)
(* Strings that are compared ignoring case are sequences of character      *)
(* codes, so that LOWER()/str.lower() are computed and not assumed.        *)
(***************************************************************************)
EXTENDS Integers, Sequences, FiniteSets, Bags, TLC

VARIABLES linked_accounts, drop_log, clock, writer, task

vars == <<linked_accounts, drop_log, clock, writer, task>>

(* ------------------------------ bounds -------------------------------- *)
MaxDropRows == 1
MaxDropLog == 11
MaxClock == 1
MaxOffset == 60
MaxBoardNames == 12

\* Two tasks can be in flight at once: the races between commands are
\* races between two handlers.
Handlers == {1, 2}
Users == {1, 2}

(* ------------------------------ strings ------------------------------- *)
\* "A b", "a b", "a_b" and the empty string (an omitted optional argument
\* and "" are both falsy in the handlers' `if rsn` tests).
Name_A_b == <<65, 32, 98>>
Name_a_b == <<97, 32, 98>>
Name_a_u_b == <<97, 95, 98>>
NoArg == <<>>
Names == {Name_A_b, Name_a_b, Name_a_u_b}
Items == {"Dragon Rider lance"}

\* SQLite LOWER(): folds the ASCII letters A-Z only.
LOWER(s) == [i \in DOMAIN s |-> IF s[i] >= 65 /\ s[i] <= 90 THEN s[i] + 32 ELSE s[i]]

\* str.lower() on the ASCII strings of the model.
lower(s) == [i \in DOMAIN s |-> IF s[i] >= 65 /\ s[i] <= 90 THEN s[i] + 32 ELSE s[i]]

(* ------------------------------ optionals ----------------------------- *)
\* Optional[dict]: None is the empty tuple, a dict d is <<d>>; a dict is a
\* function from its keys.
None == <<>>
Some(d) == <<d>>
EmptyDict == [k \in {} |-> 0]
Get(d, k, default) == IF k \in DOMAIN d THEN d[k] ELSE default
\* Python truthiness of an Optional[dict]: None and {} are falsy.
Truthy(o) == o # None /\ DOMAIN o[1] # {}

(* ------------------------------ upstream ------------------------------ *)
\* What the profile endpoint can answer to one GET: a status and a JSON
\* body, or an exception (timeout, connection error, malformed body).
RaisedException == [raised |-> TRUE]
ProfileResponses ==
    {RaisedException}
    \cup {[raised |-> FALSE, status |-> 404, body |-> EmptyDict]}
    \cup {[raised |-> FALSE, status |-> 200, body |-> [error |-> "NO_PROFILE"]]}
    \cup {[raised |-> FALSE, status |-> 200, body |-> [totalxp |-> 500]]}
    \cup {[raised |-> FALSE, status |-> 200, body |-> [name |-> n, totalxp |-> 500]] : n \in Names}

fetch_runemetrics(resp) ==
    IF resp.raised THEN None
    ELSE IF resp.status = 200
         THEN IF "error" \notin DOMAIN resp.body THEN Some(resp.body) ELSE None
         ELSE None

(* ------------------------------ tables -------------------------------- *)
\* linked_accounts is the bag of its (discord_id, rsn) rows; the columns id
\* and linked_at are read by no statement modelled here.  drop_log is the
\* sequence of its rows in rowid order.
Row(discord_id, rsn) == [discord_id |-> discord_id, rsn |-> rsn]

\* Mutants of the constraint: no constraint at all; UNIQUE(rsn) alone.
UNIQUE_violated_never(rows, discord_id, rsn) == FALSE
UNIQUE_violated_any_caller(rows, discord_id, rsn) ==
    \E r \in BagToSet(rows) : r.rsn = rsn

\* UNIQUE(discord_id, rsn) of linked_accounts, BINARY collation: the insert
\* of (discord_id, rsn) raises IntegrityError iff such a row exists.
UNIQUE_violated(rows, discord_id, rsn) ==
    \E r \in BagToSet(rows) : r.discord_id = discord_id /\ r.rsn = rsn

\* Mutant of the WHERE clause: the caller is not constrained.
unlink_where_any_caller(r, discord_id, rsn) ==
    LOWER(r.rsn) = LOWER(rsn)

\* WHERE discord_id = ? AND LOWER(rsn) = LOWER(?)
unlink_where(r, discord_id, rsn) ==
    r.discord_id = discord_id /\ LOWER(r.rsn) = LOWER(rsn)

\* The rows of a bag that satisfy / do not satisfy the WHERE of unlink.
Matching(rows, discord_id, rsn) ==
    [r \in {x \in BagToSet(rows) : unlink_where(x, discord_id, rsn)} |-> rows[r]]
NotMatching(rows, discord_id, rsn) ==
    [r \in {x \in BagToSet(rows) : ~unlink_where(x, discord_id, rsn)} |-> rows[r]]

\* All the orders in which a SELECT without ORDER BY may return the set S.
Orderings(S) ==
    {f \in [1..Cardinality(S) -> S] : \A i, j \in 1..Cardinality(S) : i # j => f[i] # f[j]}

\* The rows of one caller, one element per stored copy.
RowsOf(rows, discord_id) ==
    UNION {{<<r, k>> : k \in 1..rows[r]} : r \in {x \in BagToSet(rows) : x.discord_id = discord_id}}

\* SELECT rsn FROM linked_accounts WHERE discord_id = ?   (any row order)
select_rsn(rows, discord_id) ==
    {[i \in DOMAIN o |-> o[i][1].rsn] : o \in Orderings(RowsOf(rows, discord_id))}

(* ------------------------------ tasks --------------------------------- *)
Idle ==
    [cmd |-> "none", pc |-> "idle", user |-> 0, rsn |-> NoArg, item |-> "",
     actual_name |-> NoArg, accounts |-> <<>>, selected_rsn |-> NoArg,
     rowcount |-> 0, stamp |-> 0, num |-> 0, runemetrics |-> <<>>, hiscores |-> <<>>,
     fetched |-> 0, player_data |-> <<>>,
     reply |-> "", out |-> <<>>]

Free(h) == task[h].pc \in {"idle", "done"}

\* The handler returns: its locals are gone, the interaction keeps the
\* command, its arguments and the reply that was sent.
Done(t, reply) ==
    [Idle EXCEPT !.cmd = t.cmd, !.pc = "done", !.user = t.user, !.rsn = t.rsn,
                 !.actual_name = t.actual_name, !.reply = reply]

Init ==
    /\ linked_accounts = EmptyBag
    /\ drop_log = <<>>
    /\ clock = 0
    /\ writer = 0
    /\ task = [h \in Handlers |-> Idle]

(* --------------------------- format_number ---------------------------- *)
\* floor(log2(q)) for q >= 1.
RECURSIVE Log2Floor(_)
Log2Floor(q) == IF q < 2 THEN 0 ELSE 1 + Log2Floor(q \div 2)

\* (r * 2^k) mod d, for 0 <= r < d.
RECURSIVE DoubleMod(_, _, _)
DoubleMod(r, k, d) == IF k = 0 THEN r ELSE DoubleMod((2 * r) % d, k - 1, d)

\* num / d is the double nearest to the quotient (53-bit significand).  For
\* num >= d > 0: -1, 0 or 1 as that double is below, equal to or above the
\* exact quotient.
TrueDivError(num, d) ==
    LET k == 52 - Log2Floor(num \div d)
        r == DoubleMod(num % d, k, d)
    IN IF r = 0 THEN 0 ELSE IF 2 * r < d THEN -1 ELSE 1

\* The digits of f"{num / d:.{p}f}" as the integer round(num / d * 10^p):
\* the double is rounded to p decimals correctly, halves to even.  unit is
\* d / 10^p.
FixedDigits(num, d, unit) ==
    LET lo == num \div unit
        rem == num % unit
        err == TrueDivError(num, d)
    IN IF 2 * rem < unit THEN lo
       ELSE IF 2 * rem > unit THEN lo + 1
       ELSE IF err < 0 THEN lo
       ELSE IF err > 0 THEN lo + 1
       ELSE IF lo % 2 = 0 THEN lo ELSE lo + 1

\* The text of a fixed-point number of p = 1 or 2 decimals.
FixedText(digits, p) ==
    IF p = 1
    THEN ToString(digits \div 10) \o "." \o ToString(digits % 10)
    ELSE ToString(digits \div 100) \o "."
            \o (IF digits % 100 < 10 THEN "0" ELSE "") \o ToString(digits % 100)

\* Mutant: the tiers start above their thresholds.
format_number_strict(num) ==
    IF num > 1000000000
    THEN FixedText(FixedDigits(num, 1000000000, 10000000), 2) \o "B"
    ELSE IF num > 1000000
    THEN FixedText(FixedDigits(num, 1000000, 10000), 2) \o "M"
    ELSE IF num > 1000
    THEN FixedText(FixedDigits(num, 1000, 100), 1) \o "K"
    ELSE ToString(num)

format_number(num) ==
    IF num >= 1000000000
    THEN FixedText(FixedDigits(num, 1000000000, 10000000), 2) \o "B"
    ELSE IF num >= 1000000
    THEN FixedText(FixedDigits(num, 1000000, 10000), 2) \o "M"
    ELSE IF num >= 1000
    THEN FixedText(FixedDigits(num, 1000, 100), 1) \o "K"
    ELSE ToString(num)

\* One call of format_number on the argument held by the task.
format_number_call(h) ==
    /\ task[h].cmd = "format_number" /\ task[h].pc = "call"
    /\ task' = [task EXCEPT ![h].pc = "done", ![h].out = format_number(task[h].num)]
    /\ UNCHANGED <<linked_accounts, drop_log, clock, writer>>

(* ------------------------------ /link --------------------------------- *)
\* The command is invoked; the handler defers and awaits the profile fetch.
link_account(h, user, rsn) ==
    /\ Free(h)
    /\ task' = [task EXCEPT ![h] = [Idle EXCEPT !.cmd = "link", !.pc = "fetch",
                                                !.user = user, !.rsn = rsn]]
    /\ UNCHANGED <<linked_accounts, drop_log, clock, writer>>

\* The fetch returns: not found, or the canonical name is resolved.
link_account_fetch(h) ==
    /\ task[h].cmd = "link" /\ task[h].pc = "fetch"
    /\ \E resp \in ProfileResponses :
         LET data == fetch_runemetrics(resp) IN
         IF ~Truthy(data)
         THEN task' = [task EXCEPT ![h] = Done(task[h], "not_found")]
         ELSE task' = [task EXCEPT ![h].pc = "insert",
                                   ![h].actual_name = Get(data[1], "name", task[h].rsn)]
    /\ UNCHANGED <<linked_accounts, drop_log, clock, writer>>

\* INSERT INTO linked_accounts: takes the write lock, or raises
\* IntegrityError, which the handler answers with "already linked".
link_account_insert(h) ==
    /\ task[h].cmd = "link" /\ task[h].pc = "insert"
    /\ writer = 0
    /\ IF UNIQUE_violated(linked_accounts, task[h].user, task[h].actual_name)
       THEN /\ task' = [task EXCEPT ![h] = Done(task[h], "already_linked")]
            /\ UNCHANGED writer
       ELSE /\ task' = [task EXCEPT ![h].pc = "commit"]
            /\ writer' = h
    /\ UNCHANGED <<linked_accounts, drop_log, clock>>

\* db.commit() and the success reply.
link_account_commit(h) ==
    /\ task[h].cmd = "link" /\ task[h].pc = "commit"
    /\ writer = h
    /\ linked_accounts' = linked_accounts (+) SetToBag({Row(task[h].user, task[h].actual_name)})
    /\ writer' = 0
    /\ task' = [task EXCEPT ![h] = Done(task[h], "linked")]
    /\ UNCHANGED <<drop_log, clock>>

(* ------------------------------ /unlink ------------------------------- *)
unlink_account(h, user, rsn) ==
    /\ Free(h)
    /\ task' = [task EXCEPT ![h] = [Idle EXCEPT !.cmd = "unlink", !.pc = "delete",
                                                !.user = user, !.rsn = rsn]]
    /\ UNCHANGED <<linked_accounts, drop_log, clock, writer>>

\* DELETE FROM linked_accounts WHERE ...: takes the write lock; the cursor
\* holds the number of rows the statement removed.
unlink_account_delete(h) ==
    /\ task[h].cmd = "unlink" /\ task[h].pc = "delete"
    /\ writer = 0
    /\ writer' = h
    /\ task' = [task EXCEPT ![h].pc = "commit",
                  ![h].rowcount = BagCardinality(Matching(linked_accounts, task[h].user, task[h].rsn))]
    /\ UNCHANGED <<linked_accounts, drop_log, clock>>

\* db.commit() and the reply chosen by cursor.rowcount.
unlink_account_commit(h) ==
    /\ task[h].cmd = "unlink" /\ task[h].pc = "commit"
    /\ writer = h
    /\ linked_accounts' = NotMatching(linked_accounts, task[h].user, task[h].rsn)
    /\ writer' = 0
    /\ task' = [task EXCEPT ![h] =
                  Done(task[h], IF task[h].rowcount > 0 THEN "unlinked" ELSE "not_linked")]
    /\ UNCHANGED <<drop_log, clock>>

(* ------------------------------ /drop --------------------------------- *)
\* Mutants of the guard: compared without folding case; never rejecting.
any_account_matches_exact(accounts, rsn) ==
    \E i \in DOMAIN accounts : accounts[i] = rsn
any_account_matches_unchecked(accounts, rsn) == TRUE

\* any(a[0].lower() == rsn.lower() for a in accounts)
any_account_matches(accounts, rsn) ==
    \E i \in DOMAIN accounts : lower(accounts[i]) = lower(rsn)

\* Rows of drop_log that are written or about to be written.
DropsInFlight ==
    Len(drop_log) + Cardinality({h \in Handlers : task[h].cmd = "drop" /\ ~Free(h)})

log_drop(h, user, item, rsn) ==
    /\ Free(h)
    /\ task' = [task EXCEPT ![h] = [Idle EXCEPT !.cmd = "drop", !.pc = "select",
                                    !.user = user, !.rsn = rsn, !.item = item]]
    /\ UNCHANGED <<linked_accounts, drop_log, clock, writer>>

\* SELECT rsn FROM linked_accounts, then the two guards of the handler.
log_drop_select(h) ==
    /\ task[h].cmd = "drop" /\ task[h].pc = "select"
    /\ \E accounts \in select_rsn(linked_accounts, task[h].user) :
         IF accounts = <<>>
         THEN task' = [task EXCEPT ![h] = Done(task[h], "need_link")]
         ELSE IF task[h].rsn # NoArg
              THEN IF ~any_account_matches(accounts, task[h].rsn)
                   THEN task' = [task EXCEPT ![h] = Done(task[h], "not_linked")]
                   ELSE task' = [task EXCEPT ![h].pc = "insert", ![h].accounts = accounts,
                                             ![h].selected_rsn = task[h].rsn]
              ELSE task' = [task EXCEPT ![h].pc = "insert", ![h].accounts = accounts,
                                        ![h].selected_rsn = accounts[1]]
    /\ UNCHANGED <<linked_accounts, drop_log, clock, writer>>

\* INSERT INTO drop_log: takes the write lock; CURRENT_TIMESTAMP is the
\* second in which the statement runs.
log_drop_insert(h) ==
    /\ task[h].cmd = "drop" /\ task[h].pc = "insert"
    /\ writer = 0
    /\ writer' = h
    /\ task' = [task EXCEPT ![h].pc = "commit", ![h].stamp = clock]
    /\ UNCHANGED <<linked_accounts, drop_log, clock>>

\* db.commit() and the announcement.
log_drop_commit(h) ==
    /\ task[h].cmd = "drop" /\ task[h].pc = "commit"
    /\ writer = h
    /\ drop_log' = Append(drop_log,
           [discord_id |-> task[h].user, rsn |-> task[h].selected_rsn,
            item_name |-> task[h].item, timestamp |-> task[h].stamp])
    /\ writer' = 0
    /\ task' = [task EXCEPT ![h] = [Done(task[h], "logged") EXCEPT
                                       !.selected_rsn = task[h].selected_rsn]]
    /\ UNCHANGED <<linked_accounts, clock>>

(* ------------------------------ /drops -------------------------------- *)
\* LIMIT 10 of both queries of view_drops.
DropsLimit == 10

\* The order SQL leaves open among rows with equal ORDER BY keys: the
\* engine may return them by ascending or by descending rowid.
TieOrders == {"rowid_asc", "rowid_desc"}

\* Mutant of the WHERE clause: the filter is ignored.
drops_where_unfiltered(row, rsn) == TRUE

\* WHERE LOWER(rsn) = LOWER(?), or no WHERE clause when rsn is not given.
drops_where(row, rsn) == rsn = NoArg \/ LOWER(row.rsn) = LOWER(rsn)

\* ORDER BY timestamp DESC over the rowids `ids` of `log`.
RECURSIVE order_by_timestamp_desc(_, _, _)
order_by_timestamp_desc(log, ids, tie) ==
    IF ids = <<>> THEN <<>>
    ELSE LET x == Head(ids)
             rest == order_by_timestamp_desc(log, Tail(ids), tie)
             before(y) == \/ log[x].timestamp > log[y].timestamp
                          \/ /\ log[x].timestamp = log[y].timestamp
                             /\ IF tie = "rowid_asc" THEN x < y ELSE x > y
             k == Cardinality({j \in DOMAIN rest : ~before(rest[j])})
         IN SubSeq(rest, 1, k) \o <<x>> \o SubSeq(rest, k + 1, Len(rest))

\* The rowids of the rows that satisfy the WHERE clause, in table order.
RECURSIVE drops_matching(_, _, _)
drops_matching(log, rsn, i) ==
    IF i > Len(log) THEN <<>>
    ELSE (IF drops_where(log[i], rsn) THEN <<i>> ELSE <<>>) \o drops_matching(log, rsn, i + 1)

\* SELECT rsn, item_name, timestamp FROM drop_log [WHERE ...]
\* ORDER BY timestamp DESC LIMIT 10
select_drops(log, rsn, tie) ==
    LET sorted == order_by_timestamp_desc(log, drops_matching(log, rsn, 1), tie)
        n == IF Len(sorted) < DropsLimit THEN Len(sorted) ELSE DropsLimit
    IN [i \in 1..n |-> [rsn |-> log[sorted[i]].rsn, item_name |-> log[sorted[i]].item_name,
                        timestamp |-> log[sorted[i]].timestamp]]

view_drops(h, user, rsn) ==
    /\ Free(h)
    /\ task' = [task EXCEPT ![h] = [Idle EXCEPT !.cmd = "drops", !.pc = "select",
                                                !.user = user, !.rsn = rsn]]
    /\ UNCHANGED <<linked_accounts, drop_log, clock, writer>>

\* The query returns and the handler replies with what it fetched.
view_drops_select(h) ==
    /\ task[h].cmd = "drops" /\ task[h].pc = "select"
    /\ \E tie \in TieOrders :
         LET drops == select_drops(drop_log, task[h].rsn, tie) IN
         task' = [task EXCEPT ![h] = [Done(task[h], IF drops = <<>> THEN "no_drops" ELSE "drops")
                                         EXCEPT !.out = drops]]
    /\ UNCHANGED <<linked_accounts, drop_log, clock, writer>>

\* A second passes: CURRENT_TIMESTAMP has the resolution of one second.
Tick ==
    /\ clock < MaxClock
    /\ clock' = clock + 1
    /\ UNCHANGED <<linked_accounts, drop_log, writer, task>>

(* ------------------------------ /stats -------------------------------- *)
SKILLS ==
    <<"Overall", "Attack", "Defence", "Strength", "Constitution", "Ranged",
      "Prayer", "Magic", "Cooking", "Woodcutting", "Fletching", "Fishing",
      "Firemaking", "Crafting", "Smithing", "Mining", "Herblore", "Agility",
      "Thieving", "Slayer", "Farming", "Runecrafting", "Hunter", "Construction",
      "Summoning", "Dungeoneering", "Divination", "Invention", "Archaeology",
      "Necromancy">>

combat_stats ==
    <<"Attack", "Strength", "Defence", "Constitution", "Ranged", "Prayer", "Magic",
      "Summoning", "Necromancy">>

\* The characters str.strip() and int() treat as white space.
IsSpace(c) == c \in {9, 10, 11, 12, 13, 32}

\* str.strip()
RECURSIVE Strip(_)
Strip(s) ==
    IF s = <<>> THEN s
    ELSE IF IsSpace(Head(s)) THEN Strip(Tail(s))
    ELSE IF IsSpace(s[Len(s)]) THEN Strip(SubSeq(s, 1, Len(s) - 1))
    ELSE s

\* str.split(sep) for a one-character separator.
RECURSIVE Split(_, _)
Split(s, sep) ==
    IF \A i \in DOMAIN s : s[i] # sep THEN <<s>>
    ELSE LET i == CHOOSE j \in DOMAIN s : s[j] = sep /\ \A k \in 1..(j - 1) : s[k] # sep
         IN <<SubSeq(s, 1, i - 1)>> \o Split(SubSeq(s, i + 1, Len(s)), sep)

\* The value of a string of decimal digits.
RECURSIVE DigitsValue(_)
DigitsValue(s) ==
    IF s = <<>> THEN 0 ELSE 10 * DigitsValue(SubSeq(s, 1, Len(s) - 1)) + (s[Len(s)] - 48)

\* int(s): white space around an optional sign and decimal digits; any
\* other text raises ValueError (ok = FALSE).
int(s) ==
    LET t == Strip(s)
        signed == t # <<>> /\ t[1] \in {43, 45}
        digits == IF signed THEN Tail(t) ELSE t
    IN IF digits # <<>> /\ \A i \in DOMAIN digits : digits[i] \in 48..57
       THEN [ok |-> TRUE,
             val |-> IF signed /\ t[1] = 45 THEN 0 - DigitsValue(digits) ELSE DigitsValue(digits)]
       ELSE [ok |-> FALSE, val |-> 0]

\* Bodies of the skill-table endpoint.
\* 30 skill lines "rank,level,xp", an activity line, a final newline:
HiscoresFull ==
    <<49, 44, 53, 48, 44, 49, 48, 48, 48, 10, 50, 44, 53, 49, 44, 50, 48, 48,
      48, 10, 51, 44, 53, 50, 44, 51, 48, 48, 48, 10, 52, 44, 53, 51, 44, 52,
      48, 48, 48, 10, 53, 44, 53, 52, 44, 53, 48, 48, 48, 10, 54, 44, 53, 53,
      44, 54, 48, 48, 48, 10, 55, 44, 53, 54, 44, 55, 48, 48, 48, 10, 56, 44,
      53, 55, 44, 56, 48, 48, 48, 10, 57, 44, 53, 56, 44, 57, 48, 48, 48, 10,
      49, 48, 44, 53, 57, 44, 49, 48, 48, 48, 48, 10, 49, 49, 44, 54, 48, 44,
      49, 49, 48, 48, 48, 10, 49, 50, 44, 54, 49, 44, 49, 50, 48, 48, 48, 10,
      49, 51, 44, 54, 50, 44, 49, 51, 48, 48, 48, 10, 49, 52, 44, 54, 51, 44,
      49, 52, 48, 48, 48, 10, 49, 53, 44, 54, 52, 44, 49, 53, 48, 48, 48, 10,
      49, 54, 44, 54, 53, 44, 49, 54, 48, 48, 48, 10, 49, 55, 44, 54, 54, 44,
      49, 55, 48, 48, 48, 10, 49, 56, 44, 54, 55, 44, 49, 56, 48, 48, 48, 10,
      49, 57, 44, 54, 56, 44, 49, 57, 48, 48, 48, 10, 50, 48, 44, 54, 57, 44,
      50, 48, 48, 48, 48, 10, 50, 49, 44, 55, 48, 44, 50, 49, 48, 48, 48, 10,
      50, 50, 44, 55, 49, 44, 50, 50, 48, 48, 48, 10, 50, 51, 44, 55, 50, 44,
      50, 51, 48, 48, 48, 10, 50, 52, 44, 55, 51, 44, 50, 52, 48, 48, 48, 10,
      50, 53, 44, 55, 52, 44, 50, 53, 48, 48, 48, 10, 50, 54, 44, 55, 53, 44,
      50, 54, 48, 48, 48, 10, 50, 55, 44, 55, 54, 44, 50, 55, 48, 48, 48, 10,
      50, 56, 44, 55, 55, 44, 50, 56, 48, 48, 48, 10, 50, 57, 44, 55, 56, 44,
      50, 57, 48, 48, 48, 10, 51, 48, 44, 55, 57, 44, 51, 48, 48, 48, 48, 10,
      45, 49, 44, 45, 49, 10>>
\* "1,2900,5000\n2,99,13034431"
HiscoresTwoLines == <<49, 44, 50, 57, 48, 48, 44, 53, 48, 48, 48, 10, 50, 44, 57, 57, 44, 49, 51, 48, 51, 52, 52, 51, 49>>
\* "1,2900,5000"
HiscoresOverallOnly == <<49, 44, 50, 57, 48, 48, 44, 53, 48, 48, 48>>
\* "1,2\n3,4": no line has three fields
HiscoresShortLines == <<49, 44, 50, 10, 51, 44, 52>>
\* "<html>,a,b": three fields that are not integers
HiscoresNotNumbers == <<60, 104, 116, 109, 108, 62, 44, 97, 44, 98>>
\* "": an empty body
HiscoresEmpty == <<>>

HiscoresResponses ==
    {RaisedException, [raised |-> FALSE, status |-> 404, text |-> HiscoresEmpty]}
    \cup {[raised |-> FALSE, status |-> 200, text |-> t] :
             t \in {HiscoresFull, HiscoresTwoLines, HiscoresOverallOnly, HiscoresShortLines,
                    HiscoresNotNumbers, HiscoresEmpty}}

fetch_hiscores(resp) ==
    IF resp.raised THEN None
    ELSE IF resp.status = 200
    THEN LET lines == Split(Strip(resp.text), 10)
             n == IF Len(lines) < Len(SKILLS) THEN Len(lines) ELSE Len(SKILLS)
             parts == [i \in 1..n |-> Split(lines[i], 44)]
             used == {i \in 1..n : Len(parts[i]) >= 3}
             line_of(skill) == CHOOSE i \in used : SKILLS[i] = skill
         IN IF \E i \in used, k \in 1..3 : ~int(parts[i][k]).ok
            THEN None
            ELSE Some([skill \in {SKILLS[i] : i \in used} |->
                         [rank |-> int(parts[line_of(skill)][1]).val,
                          level |-> int(parts[line_of(skill)][2]).val,
                          xp |-> int(parts[line_of(skill)][3]).val]])
    ELSE None

\* "Unknown", and an activity text of 101 characters.
Unknown == <<85, 110, 107, 110, 111, 119, 110>>
LongText == [i \in 1..101 |-> 97]

\* Bodies of the profile endpoint for /stats.
StatsProfileResponses ==
    {RaisedException,
     [raised |-> FALSE, status |-> 200, body |-> [error |-> "NO_PROFILE"]],
     [raised |-> FALSE, status |-> 200, body |-> EmptyDict],
     [raised |-> FALSE, status |-> 200, body |-> [totalxp |-> 999999, questscomplete |-> 0]],
     [raised |-> FALSE, status |-> 200,
      body |-> [name |-> Name_A_b, totalxp |-> 1500000000, totalskill |-> 2900,
                combatlevel |-> 138, questscomplete |-> 10, questsstarted |-> 2,
                questsnotstarted |-> 3,
                activities |-> <<[text |-> LongText], [text |-> Unknown]>>]]}

\* Mutant: "not found" as soon as one of the two results is falsy.
stats_not_found_either(runemetrics, hiscores) == ~Truthy(runemetrics) \/ ~Truthy(hiscores)

\* if not runemetrics and not hiscores
stats_not_found(runemetrics, hiscores) == ~Truthy(runemetrics) /\ ~Truthy(hiscores)

\* s[:100]
First100(s) == SubSeq(s, 1, IF Len(s) < 100 THEN Len(s) ELSE 100)

\* The entries (skill, level) of combat_text, in the order of combat_stats.
RECURSIVE combat_text(_, _)
combat_text(table, i) ==
    IF i > Len(combat_stats) THEN <<>>
    ELSE (IF combat_stats[i] \in DOMAIN table
          THEN <<[skill |-> combat_stats[i], level |-> table[combat_stats[i]].level]>>
          ELSE <<>>) \o combat_text(table, i + 1)

\* The embed of stats_lookup: its title and its fields in order.  The value
\* of "Combat Stats" is kept as the list of its "**skill:** level" entries,
\* which the handler joins with " | ".
stats_embed(rsn, runemetrics, hiscores) ==
    LET rm == runemetrics[1]
        profile ==
            IF Truthy(runemetrics)
            THEN <<[name |-> "Total XP", value |-> format_number(Get(rm, "totalxp", 0))],
                   [name |-> "Total Level", value |-> ToString(Get(rm, "totalskill", 0))],
                   [name |-> "Combat Level", value |-> ToString(Get(rm, "combatlevel", 0))]>>
                 \o (IF Get(rm, "questscomplete", 0) # 0
                     THEN <<[name |-> "Quests",
                             value |-> ToString(Get(rm, "questscomplete", 0)) \o "/" \o
                                       ToString(Get(rm, "questsstarted", 0)
                                                + Get(rm, "questscomplete", 0)
                                                + Get(rm, "questsnotstarted", 0))]>>
                     ELSE <<>>)
                 \o (IF Get(rm, "activities", <<>>) # <<>>
                     THEN <<[name |-> "Recent Activity",
                             value |-> First100(Get(rm.activities[1], "text", Unknown))]>>
                     ELSE <<>>)
            ELSE <<>>
        combat == IF Truthy(hiscores) THEN combat_text(hiscores[1], 1) ELSE <<>>
    IN [title |-> IF Truthy(runemetrics) THEN Get(rm, "name", rsn) ELSE rsn,
        fields |-> profile \o (IF combat # <<>>
                               THEN <<[name |-> "Combat Stats", value |-> combat]>>
                               ELSE <<>>)]

\* The command is invoked and deferred.
stats_lookup(h, user, rsn) ==
    /\ Free(h)
    /\ task' = [task EXCEPT ![h] = [Idle EXCEPT !.cmd = "stats", !.user = user, !.rsn = rsn,
                                       !.pc = IF rsn = NoArg THEN "resolve" ELSE "fetch_runemetrics"]]
    /\ UNCHANGED <<linked_accounts, drop_log, clock, writer>>

\* SELECT rsn FROM linked_accounts WHERE discord_id = ? LIMIT 1
stats_lookup_resolve(h) ==
    /\ task[h].cmd = "stats" /\ task[h].pc = "resolve"
    /\ \E accounts \in select_rsn(linked_accounts, task[h].user) :
         IF accounts # <<>>
         THEN task' = [task EXCEPT ![h].pc = "fetch_runemetrics", ![h].rsn = accounts[1]]
         ELSE task' = [task EXCEPT ![h] = Done(task[h], "need_rsn")]
    /\ UNCHANGED <<linked_accounts, drop_log, clock, writer>>

stats_lookup_fetch_runemetrics(h) ==
    /\ task[h].cmd = "stats" /\ task[h].pc = "fetch_runemetrics"
    /\ \E resp \in StatsProfileResponses :
         task' = [task EXCEPT ![h].pc = "fetch_hiscores",
                              ![h].runemetrics = fetch_runemetrics(resp)]
    /\ UNCHANGED <<linked_accounts, drop_log, clock, writer>>

\* The second fetch returns; the handler replies "not found" or sends the embed.
stats_lookup_fetch_hiscores(h) ==
    /\ task[h].cmd = "stats" /\ task[h].pc = "fetch_hiscores"
    /\ \E resp \in HiscoresResponses :
         LET hiscores == fetch_hiscores(resp) IN
         IF stats_not_found(task[h].runemetrics, hiscores)
         THEN task' = [task EXCEPT ![h] =
                         [Done(task[h], "not_found") EXCEPT
                             !.runemetrics = task[h].runemetrics, !.hiscores = hiscores]]
         ELSE task' = [task EXCEPT ![h] =
                         [Done(task[h], "report") EXCEPT
                             !.runemetrics = task[h].runemetrics, !.hiscores = hiscores,
                             !.out = stats_embed(task[h].rsn, task[h].runemetrics, hiscores)]]
    /\ UNCHANGED <<linked_accounts, drop_log, clock, writer>>

(* ---------------------------- /leaderboard ---------------------------- *)
\* player_data[:10]
BoardLimit == 10

medals == <<"first_place_medal", "second_place_medal", "third_place_medal">>

\* The account names of the clan: "P01", "P02", ...
BoardName(i) == <<80, 48 + (i \div 10), 48 + (i % 10)>>

\* What the profile endpoint can answer for a linked name: the first two
\* profiles may be private (an error body) or hold any of three totals, the
\* others hold one of two totals.
BoardResponses(rsn) ==
    LET public(xp) == [raised |-> FALSE, status |-> 200,
                       body |-> [name |-> rsn, totalxp |-> xp, totalskill |-> 2000]]
    IN IF rsn \in {BoardName(1), BoardName(2)}
       THEN {[raised |-> FALSE, status |-> 200, body |-> [error |-> "PROFILE_PRIVATE"]],
             public(100), public(500), public(1500000000)}
       ELSE {public(100), public(500)}

\* a < b for two strings, by code points (BINARY collation).
RECURSIVE StrLess(_, _)
StrLess(a, b) ==
    IF b = <<>> THEN FALSE
    ELSE IF a = <<>> THEN TRUE
    ELSE IF Head(a) # Head(b) THEN Head(a) < Head(b)
    ELSE StrLess(Tail(a), Tail(b))

\* SELECT DISTINCT rsn FROM linked_accounts: every name once.  SQL leaves
\* the order open; the model takes the ascending and the descending order
\* of the names.
select_distinct_rsn(rows) ==
    LET names == {r.rsn : r \in BagToSet(rows)}
        n == Cardinality(names)
        asc == [i \in 1..n |-> CHOOSE x \in names :
                                  Cardinality({y \in names : StrLess(y, x)}) = i - 1]
    IN {asc, [i \in 1..n |-> asc[n + 1 - i]]}

\* Mutant: equal keys come out in the reverse of their input order.
RECURSIVE sort_by_xp_reversing_ties(_)
sort_by_xp_reversing_ties(player_data) ==
    IF player_data = <<>> THEN <<>>
    ELSE LET x == Head(player_data)
             rest == sort_by_xp_reversing_ties(Tail(player_data))
             k == Cardinality({j \in DOMAIN rest : rest[j].xp >= x.xp})
         IN SubSeq(rest, 1, k) \o <<x>> \o SubSeq(rest, k + 1, Len(rest))

\* player_data.sort(key=lambda x: x["xp"], reverse=True): descending by xp,
\* entries with equal xp in their input order (list.sort is stable, also
\* with reverse=True).
RECURSIVE sort_by_xp(_)
sort_by_xp(player_data) ==
    IF player_data = <<>> THEN <<>>
    ELSE LET x == Head(player_data)
             rest == sort_by_xp(Tail(player_data))
             k == Cardinality({j \in DOMAIN rest : rest[j].xp > x.xp})
         IN SubSeq(rest, 1, k) \o <<x>> \o SubSeq(rest, k + 1, Len(rest))

\* The lines of the embed description.
leaderboard_text(player_data) ==
    LET sorted == sort_by_xp(player_data)
        n == IF Len(sorted) < BoardLimit THEN Len(sorted) ELSE BoardLimit
    IN [i \in 1..n |->
          [medal |-> IF i <= 3 THEN medals[i] ELSE "**" \o ToString(i) \o ".**",
           name |-> sorted[i].name,
           xp |-> format_number(sorted[i].xp),
           level |-> sorted[i].level]]

\* The handler does not read who calls it.
leaderboard(h) ==
    /\ Free(h)
    /\ task' = [task EXCEPT ![h] = [Idle EXCEPT !.cmd = "leaderboard", !.pc = "select"]]
    /\ UNCHANGED <<linked_accounts, drop_log, clock, writer>>

\* The query returns: no account at all, or the loop over the names starts.
leaderboard_select(h) ==
    /\ task[h].cmd = "leaderboard" /\ task[h].pc = "select"
    /\ \E accounts \in select_distinct_rsn(linked_accounts) :
         IF accounts = <<>>
         THEN task' = [task EXCEPT ![h] = Done(task[h], "no_accounts")]
         ELSE task' = [task EXCEPT ![h].pc = "fetch", ![h].accounts = accounts]
    /\ UNCHANGED <<linked_accounts, drop_log, clock, writer>>

\* One profile fetch of the loop returns; after the last one the handler
\* sorts, renders and replies.
leaderboard_fetch(h) ==
    /\ task[h].cmd = "leaderboard" /\ task[h].pc = "fetch"
    /\ LET rsn == task[h].accounts[task[h].fetched + 1] IN
       \E resp \in BoardResponses(rsn) :
         LET data == fetch_runemetrics(resp)
             player_data ==
                 IF Truthy(data)
                 THEN Append(task[h].player_data,
                             [name |-> Get(data[1], "name", rsn),
                              xp |-> Get(data[1], "totalxp", 0),
                              level |-> Get(data[1], "totalskill", 0)])
                 ELSE task[h].player_data
         IN IF task[h].fetched + 1 < Len(task[h].accounts)
            THEN task' = [task EXCEPT ![h].fetched = task[h].fetched + 1,
                                      ![h].player_data = player_data]
            ELSE task' = [task EXCEPT ![h] =
                            [Done(task[h], IF player_data = <<>> THEN "no_data" ELSE "leaderboard")
                                EXCEPT !.accounts = task[h].accounts,
                                       !.fetched = task[h].fetched + 1,
                                       !.player_data = player_data,
                                       !.out = leaderboard_text(player_data)]]
    /\ UNCHANGED <<linked_accounts, drop_log, clock, writer>>

(* ------------------------------ the bot ------------------------------- *)
\* One command at a time: every handler of the ledger, both callers.
Next ==
    \/ \E u \in Users, n \in Names : link_account(1, u, n)
    \/ link_account_fetch(1)
    \/ link_account_insert(1)
    \/ link_account_commit(1)
    \/ \E u \in Users, n \in Names : unlink_account(1, u, n)
    \/ unlink_account_delete(1)
    \/ unlink_account_commit(1)
    \/ \E u \in Users, i \in Items, n \in Names \cup {NoArg} :
          DropsInFlight < MaxDropRows /\ log_drop(1, u, i, n)
    \/ log_drop_select(1)
    \/ log_drop_insert(1)
    \/ log_drop_commit(1)

Spec == Init /\ [][Next]_vars

\* Two /link and /unlink commands in flight, interleaved at their awaits.
NextLink ==
    \E h \in Handlers :
        \/ \E u \in Users, n \in Names : link_account(h, u, n)
        \/ link_account_fetch(h)
        \/ link_account_insert(h)
        \/ link_account_commit(h)
        \/ \E u \in Users, n \in Names : unlink_account(h, u, n)
        \/ unlink_account_delete(h)
        \/ unlink_account_commit(h)

SpecLink == Init /\ [][NextLink]_vars

\* Two commands of one caller in flight, interleaved at their awaits.
NextRace ==
    \E h \in Handlers :
        \/ \E n \in Names : link_account(h, 1, n)
        \/ link_account_fetch(h)
        \/ link_account_insert(h)
        \/ link_account_commit(h)
        \/ \E n \in Names : unlink_account(h, 1, n)
        \/ unlink_account_delete(h)
        \/ unlink_account_commit(h)
        \/ \E i \in Items, n \in Names \cup {NoArg} :
              DropsInFlight < MaxDropRows /\ log_drop(h, 1, i, n)
        \/ log_drop_select(h)
        \/ log_drop_insert(h)
        \/ log_drop_commit(h)

SpecRace == Init /\ [][NextRace]_vars

\* The drop log of a caller who has linked "A b" and "a_b": drops are
\* logged and listed one command at a time while the seconds pass.
InitDrops ==
    /\ linked_accounts = SetToBag({Row(1, Name_A_b), Row(1, Name_a_u_b)})
    /\ drop_log = <<>>
    /\ clock = 0
    /\ writer = 0
    /\ task = [h \in Handlers |-> Idle]

NextDrops ==
    \/ \E i \in Items, n \in {Name_a_b, Name_a_u_b} :
          Len(drop_log) < MaxDropLog /\ log_drop(1, 1, i, n)
    \/ log_drop_select(1)
    \/ log_drop_insert(1)
    \/ log_drop_commit(1)
    \/ \E n \in {NoArg, Name_A_b} : view_drops(1, 1, n)
    \/ view_drops_select(1)
    \/ Tick

SpecDrops == InitDrops /\ [][NextDrops]_vars

\* format_number on the integers around its thresholds and on the largest
\* experience totals.
FormatInputs ==
    {t + k : t \in {0, 1000, 1000000, 1000000000}, k \in (0 - MaxOffset)..MaxOffset}
    \cup {999949, 999950, 999999, 1005000, 1015000, 999994999, 999995000, 999999999,
          1005000000, 1015000000, 1500000000, 2147483647}

InitFormat ==
    /\ linked_accounts = EmptyBag
    /\ drop_log = <<>>
    /\ clock = 0
    /\ writer = 0
    /\ \E n \in FormatInputs :
          task = [h \in Handlers |->
                    IF h = 1 THEN [Idle EXCEPT !.cmd = "format_number", !.pc = "call", !.num = n]
                    ELSE Idle]

NextFormat == format_number_call(1)

SpecFormat == InitFormat /\ [][NextFormat]_vars

\* /stats, with or without a name, by a caller with or without a link.
InitStats ==
    /\ linked_accounts \in {EmptyBag, SetToBag({Row(1, Name_A_b)}),
                            SetToBag({Row(1, Name_A_b), Row(2, Name_a_u_b)})}
    /\ drop_log = <<>>
    /\ clock = 0
    /\ writer = 0
    /\ task = [h \in Handlers |-> Idle]

NextStats ==
    \/ \E u \in Users, n \in {NoArg, Name_a_b} : stats_lookup(1, u, n)
    \/ stats_lookup_resolve(1)
    \/ stats_lookup_fetch_runemetrics(1)
    \/ stats_lookup_fetch_hiscores(1)

SpecStats == InitStats /\ [][NextStats]_vars

\* /leaderboard over a clan of up to MaxBoardNames linked names, the first
\* of them linked by both callers.
InitBoard ==
    /\ \E k \in 0..MaxBoardNames :
          linked_accounts =
              SetToBag({Row(1, BoardName(i)) : i \in 1..k}
                       \cup {Row(2, BoardName(i)) : i \in 1..(IF k > 0 THEN 1 ELSE 0)})
    /\ drop_log = <<>>
    /\ clock = 0
    /\ writer = 0
    /\ task = [h \in Handlers |-> Idle]

NextBoard ==
    \/ leaderboard(1)
    \/ leaderboard_select(1)
    \/ leaderboard_fetch(1)

SpecBoard == InitBoard /\ [][NextBoard]_vars

(* ====================================================================== *)
(*                              properties                                *)
(* ====================================================================== *)
\* Two strings are equal ignoring case: same length, and at every position
\* the same character or the two cases of one letter.
SameIgnoringCase(a, b) ==
    /\ Len(a) = Len(b)
    /\ \A i \in 1..Len(a) :
          \/ a[i] = b[i]
          \/ a[i] \in 65..90 /\ b[i] = a[i] + 32
          \/ b[i] \in 65..90 /\ a[i] = b[i] + 32

\* The names linked to a caller in a table.
LinkedNames(rows, u) == {r.rsn : r \in {x \in BagToSet(rows) : x.discord_id = u}}

\* Handler h takes the step that leaves program point p.
Leaves(h, c, p) == task[h].cmd = c /\ task[h].pc = p /\ task'[h].pc # p

\* C1: link() by a caller whose (caller, resolved name) row exists ends in
\* "already linked" and leaves the table as it is; a link() that succeeds
\* leaves exactly one row for its pair; no state holds two rows with the
\* same (caller, name) pair.
C1_LinkTwiceOneRow ==
    /\ [](\A r \in BagToSet(linked_accounts) : CopiesIn(r, linked_accounts) = 1)
    /\ [][\A h \in Handlers :
            LET own == Row(task[h].user, task[h].actual_name) IN
            /\ (Leaves(h, "link", "insert") /\ CopiesIn(own, linked_accounts) > 0)
                  => /\ task'[h].pc = "done" /\ task'[h].reply = "already_linked"
                     /\ linked_accounts' = linked_accounts
            /\ Leaves(h, "link", "commit")
                  => /\ task'[h].reply = "linked"
                     /\ CopiesIn(own, linked_accounts') = 1]_vars

\* One task has linked (caller, name); the other task's link() of the same
\* pair was answered "already linked"; the table holds the pair once.
C1_Witness ==
    \E g, h \in Handlers :
        /\ g # h
        /\ task[g].cmd = "link" /\ task[g].reply = "linked"
        /\ task[h].cmd = "link" /\ task[h].reply = "already_linked"
        /\ task[g].user = task[h].user /\ task[g].actual_name = task[h].actual_name
        /\ CopiesIn(Row(task[h].user, task[h].actual_name), linked_accounts) = 1

\* C2 (as claimed): once link(caller, name) has succeeded and its row is
\* the caller's only link, unlink(caller, name') with name' equal to the
\* typed name ignoring case leaves the caller with no link.
C2_LinkThenUnlinkRestoresZero ==
    [][\A g, h \in Handlers :
          ( /\ task[g].cmd = "link" /\ task[g].pc = "done" /\ task[g].reply = "linked"
            /\ Leaves(h, "unlink", "commit")
            /\ task[h].user = task[g].user
            /\ SameIgnoringCase(task[h].rsn, task[g].rsn)
            /\ RowsOf(linked_accounts, task[g].user)
                  = {<<Row(task[g].user, task[g].actual_name), 1>>} )
          => LinkedNames(linked_accounts', task[g].user) = {}]_vars

\* C3: log-drop records an event only if the caller has a link and the RSN
\* argument, when given, equals one of the caller's linked names ignoring
\* case; without the argument it records the first of the caller's links as
\* the store lists them; otherwise it rejects and leaves the log alone.
C3_DropGuards ==
    [][\A h \in Handlers :
          LET u == task[h].user
              mine == LinkedNames(linked_accounts, u)
              given == task[h].rsn # NoArg
              matches == \E n \in mine : SameIgnoringCase(n, task[h].rsn)
          IN
          /\ Leaves(h, "drop", "select") =>
                /\ drop_log' = drop_log
                /\ mine = {} => task'[h].pc = "done" /\ task'[h].reply = "need_link"
                /\ (mine # {} /\ given /\ ~matches)
                      => task'[h].pc = "done" /\ task'[h].reply = "not_linked"
                /\ (mine # {} /\ given /\ matches)
                      => task'[h].pc = "insert" /\ task'[h].selected_rsn = task[h].rsn
                /\ (mine # {} /\ ~given)
                      => /\ task'[h].pc = "insert"
                         /\ task'[h].accounts \in select_rsn(linked_accounts, u)
                         /\ task'[h].selected_rsn = Head(task'[h].accounts)
          /\ Leaves(h, "drop", "insert") => drop_log' = drop_log
          /\ Leaves(h, "drop", "commit") =>
                /\ mine # {}
                /\ given => matches
                /\ \E n \in mine : SameIgnoringCase(n, task[h].selected_rsn)
                /\ drop_log' = Append(drop_log,
                      [discord_id |-> u, rsn |-> task[h].selected_rsn,
                       item_name |-> task[h].item, timestamp |-> task[h].stamp])
          /\ drop_log' # drop_log => \E g \in Handlers : Leaves(g, "drop", "commit")]_vars

\* A drop was recorded under the typed name, which differs in case from the
\* caller's link, while the other caller's drop was never recorded.
C3_Witness ==
    /\ task[1].cmd = "drop" /\ task[1].reply = "logged"
    /\ task[1].rsn # NoArg
    /\ task[1].rsn \notin LinkedNames(linked_accounts, task[1].user)
    /\ \E n \in LinkedNames(linked_accounts, task[1].user) : SameIgnoringCase(n, task[1].rsn)
    /\ \E u \in Users : LinkedNames(linked_accounts, u) = {}
    /\ Len(drop_log) = 1

\* C5: a link() is answered "already linked" exactly when the caller's own
\* (caller, name) row exists; another caller's row for the same name never
\* makes it fail, and the commit leaves one row for the caller next to the
\* rows of the others.
C5_UniquenessPerCaller ==
    [][\A h \in Handlers :
          LET own == Row(task[h].user, task[h].actual_name) IN
          /\ Leaves(h, "link", "insert") =>
                /\ task'[h].reply = "already_linked" <=> CopiesIn(own, linked_accounts) > 0
                /\ task'[h].pc = "commit" <=> CopiesIn(own, linked_accounts) = 0
          /\ Leaves(h, "link", "commit") =>
                /\ task'[h].reply = "linked"
                /\ CopiesIn(own, linked_accounts') = 1
                /\ \A r \in BagToSet(linked_accounts) :
                      CopiesIn(r, linked_accounts') = CopiesIn(r, linked_accounts)]_vars

\* Two callers are linking the same name at once: one has run its INSERT
\* and holds the write lock before its commit, the other has resolved the
\* same name and is at its INSERT.
C5_Witness ==
    /\ task[1].cmd = "link" /\ task[2].cmd = "link"
    /\ task[1].user # task[2].user
    /\ task[1].actual_name = task[2].actual_name
    /\ task[1].pc = "commit" /\ task[2].pc = "insert"

\* C9: unlink(caller, name) removes exactly the caller's links whose name
\* equals name ignoring case, leaves the links of the other callers and the
\* drop log as they are, answers "unlinked" iff a row was removed and "not
\* linked", with the store unchanged, iff none matched.
C9_UnlinkScopedToCaller ==
    [][\A h \in Handlers :
          LET u == task[h].user
              hit(r) == r.discord_id = u /\ SameIgnoringCase(r.rsn, task[h].rsn)
              some == \E r \in BagToSet(linked_accounts) : hit(r)
          IN
          /\ Leaves(h, "unlink", "delete") =>
                linked_accounts' = linked_accounts /\ drop_log' = drop_log
          /\ Leaves(h, "unlink", "commit") =>
                /\ \A r \in BagToSet(linked_accounts) :
                      CopiesIn(r, linked_accounts') =
                          IF hit(r) THEN 0 ELSE CopiesIn(r, linked_accounts)
                /\ BagToSet(linked_accounts') \subseteq BagToSet(linked_accounts)
                /\ drop_log' = drop_log
                /\ task'[h].reply = "unlinked" <=> some
                /\ task'[h].reply = "not_linked" <=> ~some
                /\ ~some => linked_accounts' = linked_accounts]_vars

\* An unlink succeeded while the other caller holds a link of the same name
\* ignoring case and a drop event is on record.
C9_Witness ==
    /\ task[1].cmd = "unlink" /\ task[1].reply = "unlinked"
    /\ LinkedNames(linked_accounts, task[1].user) # {}
    /\ \E r \in BagToSet(linked_accounts) :
          r.discord_id # task[1].user /\ SameIgnoringCase(r.rsn, task[1].rsn)
    /\ Len(drop_log) > 0

\* C10 (as claimed): when log-drop executes its INSERT for (caller, name),
\* the caller has a link whose name equals name ignoring case.
C10_DropInsertStillLinked ==
    [][\A h \in Handlers :
          Leaves(h, "drop", "insert") =>
              \E n \in LinkedNames(linked_accounts, task[h].user) :
                  SameIgnoringCase(n, task[h].selected_rsn)]_vars

\* C10 (amended): the name log-drop inserts equals, ignoring case, one of
\* the links it read at its SELECT, and the list it read was the caller's
\* links at that moment; nothing is checked again before the INSERT.
C10_DropInsertMatchesRead ==
    [][\A h \in Handlers :
          /\ (Leaves(h, "drop", "select") /\ task'[h].pc = "insert") =>
                /\ task'[h].accounts \in select_rsn(linked_accounts, task[h].user)
                /\ \E i \in DOMAIN task'[h].accounts :
                      SameIgnoringCase(task'[h].accounts[i], task'[h].selected_rsn)
          /\ Leaves(h, "drop", "insert") =>
                /\ task'[h].accounts = task[h].accounts
                /\ task'[h].selected_rsn = task[h].selected_rsn
                /\ \E i \in DOMAIN task[h].accounts :
                      SameIgnoringCase(task[h].accounts[i], task[h].selected_rsn)
          /\ Leaves(h, "drop", "commit") =>
                /\ Len(drop_log') = Len(drop_log) + 1
                /\ drop_log'[Len(drop_log')].rsn = task[h].selected_rsn
                /\ drop_log'[Len(drop_log')].discord_id = task[h].user
                /\ \E i \in DOMAIN task[h].accounts :
                      SameIgnoringCase(task[h].accounts[i], task[h].selected_rsn)]_vars

\* A drop is being committed for a name that an unlink has removed since
\* the handler read the caller's links.
C10_Witness ==
    \E h \in Handlers :
        /\ task[h].cmd = "drop" /\ task[h].pc = "commit"
        /\ \A n \in LinkedNames(linked_accounts, task[h].user) :
              ~SameIgnoringCase(n, task[h].selected_rsn)
        /\ \E g \in Handlers : task[g].cmd = "unlink" /\ task[g].reply = "unlinked"

\* C4 (as claimed): the drop log only grows at its end, and drops() returns
\* the min(k, 10) most recently recorded of the k events that pass the
\* filter (all N events without a filter), the newest first.
C4_DropsNewestFirst ==
    [][/\ Len(drop_log') >= Len(drop_log)
       /\ SubSeq(drop_log', 1, Len(drop_log)) = drop_log
       /\ \A h \in Handlers :
             Leaves(h, "drops", "select") =>
                 LET M == {i \in 1..Len(drop_log) :
                              \/ task[h].rsn = NoArg
                              \/ SameIgnoringCase(drop_log[i].rsn, task[h].rsn)}
                     n == IF Cardinality(M) < 10 THEN Cardinality(M) ELSE 10
                     newest(j) == CHOOSE i \in M : Cardinality({m \in M : m > i}) = j - 1
                 IN task'[h].out =
                       [j \in 1..n |-> [rsn |-> drop_log[newest(j)].rsn,
                                        item_name |-> drop_log[newest(j)].item_name,
                                        timestamp |-> drop_log[newest(j)].timestamp]]]_vars

\* C6 (as claimed): stats() replies "not found" iff both fetches signalled
\* absence (returned None); when the profile is absent and the skill-table
\* fetch returned a table, a report is sent whose only field is the combat
\* levels.
C6_NotFoundIffBothAbsent ==
    [][\A h \in Handlers :
          Leaves(h, "stats", "fetch_hiscores") =>
              /\ task'[h].reply = "not_found"
                    <=> (task[h].runemetrics = None /\ task'[h].hiscores = None)
              /\ (task[h].runemetrics = None /\ task'[h].hiscores # None)
                    => /\ task'[h].reply = "report"
                       /\ \A i \in DOMAIN task'[h].out.fields :
                             task'[h].out.fields[i].name = "Combat Stats"]_vars

\* C6 (amended): stats() replies "not found" iff neither fetch yielded
\* data: the profile is absent or an empty object and the skill table is
\* absent or has no parsed line; otherwise it sends a report.  When only the
\* skill table yielded data the report has no profile, quest or activity
\* field, and its one field lists the level of every combat skill of the
\* table, or it has no field when the table holds no combat skill.
C6_NotFoundIffNoData ==
    [][\A h \in Handlers :
          Leaves(h, "stats", "fetch_hiscores") =>
              LET rm == task[h].runemetrics
                  hs == task'[h].hiscores
                  noProfile == rm = None \/ DOMAIN rm[1] = {}
                  noTable == hs = None \/ DOMAIN hs[1] = {}
                  combat == {"Attack", "Strength", "Defence", "Constitution", "Ranged",
                             "Prayer", "Magic", "Summoning", "Necromancy"} \cap DOMAIN hs[1]
                  fields == task'[h].out.fields
              IN
              /\ task'[h].pc = "done"
              /\ task'[h].reply = "not_found" <=> (noProfile /\ noTable)
              /\ task'[h].reply = "report" <=> ~(noProfile /\ noTable)
              /\ (noProfile /\ ~noTable) =>
                    IF combat = {} THEN fields = <<>>
                    ELSE /\ Len(fields) = 1
                         /\ fields[1].name = "Combat Stats"
                         /\ Len(fields[1].value) = Cardinality(combat)
                         /\ \A sk \in combat : \E i \in DOMAIN fields[1].value :
                               /\ fields[1].value[i].skill = sk
                               /\ fields[1].value[i].level = hs[1][sk].level
              /\ ~noProfile =>
                    /\ Len(fields) >= 3
                    /\ fields[1].name = "Total XP"
                    /\ (\E i \in DOMAIN fields : fields[i].name = "Combat Stats")
                          <=> (~noTable /\ combat # {})]_vars

\* The profile fetch signalled absence, the skill table was parsed, and the
\* report that was sent shows the nine combat levels and nothing else.
C6_Witness ==
    /\ task[1].cmd = "stats" /\ task[1].reply = "report"
    /\ task[1].runemetrics = None
    /\ task[1].hiscores # None
    /\ Len(task[1].out.fields) = 1
    /\ Len(task[1].out.fields[1].value) = 9

\* The text of `digits` hundredths (p = 2) or tenths (p = 1).
DecimalText(digits, p) ==
    IF p = 1 THEN ToString(digits \div 10) \o "." \o ToString(digits % 10)
    ELSE ToString(digits \div 100) \o "." \o ToString((digits % 100) \div 10)
            \o ToString(digits % 10)

\* out is n / (unit * 10^p) written with p decimals and the suffix, the
\* quotient rounded to a nearest multiple of 10^-p.
Renders(out, n, unit, p, suffix) ==
    \/ 2 * (n % unit) <= unit /\ out = DecimalText(n \div unit, p) \o suffix
    \/ 2 * (n % unit) >= unit /\ out = DecimalText(n \div unit + 1, p) \o suffix

\* C8: format_number renders n >= 10^9 as n/10^9 with two decimals and "B",
\* 10^6 <= n < 10^9 as n/10^6 with two decimals and "M", 10^3 <= n < 10^6
\* as n/10^3 with one decimal and "K", and n < 10^3 as the plain integer;
\* 999, 1000, 999999, 1000000 and 1000000000 give "999", "1.0K",
\* "1000.0K", "1.00M" and "1.00B".
C8_FormatTiers ==
    \A h \in Handlers :
        (task[h].cmd = "format_number" /\ task[h].pc = "done") =>
            LET n == task[h].num
                out == task[h].out
            IN
            /\ n >= 1000000000 => Renders(out, n, 10000000, 2, "B")
            /\ (n >= 1000000 /\ n < 1000000000) => Renders(out, n, 10000, 2, "M")
            /\ (n >= 1000 /\ n < 1000000) => Renders(out, n, 100, 1, "K")
            /\ n < 1000 => out = ToString(n)
            /\ n = 999 => out = "999"
            /\ n = 1000 => out = "1.0K"
            /\ n = 999999 => out = "1000.0K"
            /\ n = 1000000 => out = "1.00M"
            /\ n = 1000000000 => out = "1.00B"

\* format_number has returned "1000.0K" for 999999.
C8_Witness ==
    /\ task[1].cmd = "format_number" /\ task[1].pc = "done"
    /\ task[1].num = 999999
    /\ task[1].out = "1000.0K"

\* The position in player_data of the entry shown on line i of the board.
BoardSource(t, i) == CHOOSE j \in DOMAIN t.player_data : t.player_data[j].name = t.out[i].name

\* The ranking of a finished /leaderboard t: the lines are distinct entries
\* of player_data, at most BoardLimit of them and all of them when there
\* are fewer, descending by raw xp with equal xp in fetch order, every
\* entry left out ranks after every line, and line i carries the i-th medal
\* for i <= 3 and the rank number otherwise.
BoardRanked(t) ==
    LET pd == t.player_data
        out == t.out
        src == [i \in DOMAIN out |-> BoardSource(t, i)]
        before(a, b) == pd[a].xp > pd[b].xp \/ (pd[a].xp = pd[b].xp /\ a < b)
        shown == {src[i] : i \in DOMAIN out}
    IN /\ Len(out) = (IF Len(pd) < BoardLimit THEN Len(pd) ELSE BoardLimit)
       /\ \A i \in DOMAIN out :
            /\ \E j \in DOMAIN pd : pd[j].name = out[i].name
            /\ out[i].xp = format_number(pd[src[i]].xp)
            /\ out[i].level = pd[src[i]].level
            /\ out[i].medal = (IF i <= 3 THEN medals[i] ELSE "**" \o ToString(i) \o ".**")
       /\ \A i \in DOMAIN out : \A j \in DOMAIN out : i < j => before(src[i], src[j])
       /\ \A q \in DOMAIN pd \ shown : \A a \in shown : before(a, q)

\* C7: /leaderboard fetches one profile per distinct linked name and skips
\* the names whose fetch is absent; it replies "no accounts" exactly when
\* no account is linked by anyone; the lines it shows are the ten highest
\* raw totals, descending, ties in the order fetched, with the three medals
\* on the first three lines and the rank number on the others.
C7_LeaderboardRanking ==
    [][\A h \in Handlers :
         /\ (task[h].cmd = "leaderboard" /\ task[h].pc = "select" /\ task'[h] # task[h]) =>
              /\ (task'[h].reply = "no_accounts") <=> (linked_accounts = EmptyBag)
              /\ task'[h].pc = "fetch" =>
                   /\ Len(task'[h].accounts) =
                          Cardinality({r.rsn : r \in BagToSet(linked_accounts)})
                   /\ {task'[h].accounts[i] : i \in DOMAIN task'[h].accounts} =
                          {r.rsn : r \in BagToSet(linked_accounts)}
         /\ (task[h].cmd = "leaderboard" /\ task[h].pc = "fetch" /\ task'[h] # task[h]) =>
              /\ task'[h].fetched = task[h].fetched + 1
              /\ \/ task'[h].player_data = task[h].player_data
                 \/ /\ Len(task'[h].player_data) = Len(task[h].player_data) + 1
                    /\ SubSeq(task'[h].player_data, 1, Len(task[h].player_data)) =
                           task[h].player_data
                    /\ task'[h].player_data[Len(task'[h].player_data)].name =
                           task[h].accounts[task'[h].fetched]
              /\ (task'[h].pc = "done") <=> (task'[h].fetched = Len(task[h].accounts))
              /\ task'[h].pc = "done" =>
                   /\ BoardRanked(task'[h])
                   /\ (task'[h].reply = "no_data") <=> (task'[h].player_data = <<>>)
      ]_vars

\* A board over more than ten fetched profiles, with one name skipped, a tie
\* among the lines shown and the three totals 1500000000, 500, 100 present.
C7_Witness ==
    \E h \in Handlers :
        LET t == task[h] IN
        /\ t.cmd = "leaderboard" /\ t.pc = "done" /\ t.reply = "leaderboard"
        /\ Len(t.player_data) > BoardLimit
        /\ Len(t.accounts) > Len(t.player_data)
        /\ Len(t.out) = BoardLimit
        /\ \E i, j \in DOMAIN t.out :
              i < j /\ t.player_data[BoardSource(t, i)].xp = t.player_data[BoardSource(t, j)].xp
        /\ {t.player_data[j].xp : j \in DOMAIN t.player_data} = {100, 500, 1500000000}

====
